---- MODULE Spec2Model ----
(***************************************************************************)
(* mcp-demo: the four registered tools, the dispatch of one tools/call     *)
(* through the registered schemas, and the POST /mcp connection handler.   *)
(*                                                                         *)
(* The repository holds the server in two variants:                        *)
(*   "server_ts" : src/src/server.ts                                       *)
(*   "part_000"  : src/unnamed/part_000, compiled to src/build/server.js   *)
(* The variant is fixed when the process starts (Init) and never changes.  *)
(*                                                                         *)
(* JSON values are tagged tuples <<tag, payload>>; a JSON object is a      *)
(* sequence of <<key, value>> pairs, in insertion order; the text made by  *)
(* JSON.stringify is a sequence of tokens.  A path string is kept parsed:  *)
(* [abs |-> starts with "/", segs |-> its segments].                       *)
(***************************************************************************)
EXTENDS Integers, Sequences, FiniteSets, TLC

VARIABLES
    variant,      \* which copy of the server is running
    \* ---- one tools/call through the registry ----
    tphase,       \* "idle", "io", "returned", "replied"
    tcall,        \* <<>> or <<the call>>: [name, args]
    tpath,        \* <<>> or <<path>>: the path the suspended handler awaits
    thandler,     \* <<>> or <<what the handler returned>>
    toutcome,     \* <<>> or <<what the dispatcher answered>>
    \* ---- POST /mcp ----
    alive,        \* the process is running
    nextTransport,\* transports constructed so far + 1
    serverTransport, \* the transport the shared server was last connected to
    pc,           \* per request: position in the handler
    body,         \* per request: <<>> or <<req.body>>
    transportOf,  \* per request: the handler's const transport (0: none)
    streams,      \* per transport: JSON-RPC id -> the request whose res waits
    closeCalls,   \* per transport: calls of transport.close()
    inflight,     \* per request: <<>> or <<the message the server is handling>>
    res,          \* per request: the response object
    socket        \* per request: the peer's connection: "none", "open",
                  \* "aborted" (gone before the response emitted "close"),
                  \* "closed" (gone after it)

toolVars == <<tphase, tcall, tpath, thandler, toutcome>>
httpVars == <<alive, nextTransport, serverTransport, pc, body, transportOf,
              streams, closeCalls, inflight, res, socket>>
vars == <<variant, tphase, tcall, tpath, thandler, toutcome,
          alive, nextTransport, serverTransport, pc, body, transportOf,
          streams, closeCalls, inflight, res, socket>>

(***************************************************************************)
(* Bounds                                                                  *)
(***************************************************************************)
MaxReq == 2     \* POST /mcp requests in flight
MaxNum == 1     \* add_numbers arguments range over -MaxNum..MaxNum
MaxNow == 1     \* instants new Date() can return: 0..MaxNow
MaxSegs == 2    \* segments in a relativePath argument

Variants == {"server_ts", "part_000"}

(***************************************************************************)
(* JSON values and objects                                                 *)
(***************************************************************************)
Num(n) == <<"number", n>>
Str(s) == <<"string", s>>
PathStr(p) == <<"pathstring", p>>          \* a string that is a path
Arr(items) == <<"array", items>>
Undefined == <<"undefined", 0>>

IsNumber(v) == v[1] = "number"
StringTags == {"string", "pathstring", "isostring", "localestring"}
IsString(v) == v[1] \in StringTags
IsArray(v) == v[1] = "array"

HasField(obj, k) == \E i \in 1..Len(obj) : obj[i][1] = k
Field(obj, k) ==
    IF HasField(obj, k)
    THEN obj[CHOOSE i \in 1..Len(obj) : obj[i][1] = k][2]
    ELSE Undefined

RECURSIVE StringifyFields(_, _)
StringifyFields(obj, first) ==
    IF obj = <<>> THEN <<>>
    ELSE IF Head(obj)[2][1] = "undefined"
         THEN StringifyFields(Tail(obj), first)
         ELSE (IF first THEN <<>> ELSE << <<"punct", ",">> >>)
              \o << <<"key", Head(obj)[1]>>, <<"punct", ":">>, Head(obj)[2] >>
              \o StringifyFields(Tail(obj), FALSE)

\* JSON.stringify of an object: its own fields in insertion order, a field
\* whose value is undefined left out.
JSONstringify(obj) ==
    << <<"punct", "{">> >> \o StringifyFields(obj, TRUE) \o << <<"punct", "}">> >>

(***************************************************************************)
(* path and fs                                                             *)
(***************************************************************************)
P(a, s) == [abs |-> a, segs |-> s]

\* process.cwd()
Cwd == P(TRUE, <<"proj">>)

RECURSIVE NormalizeSegs(_, _)
NormalizeSegs(segs, acc) ==
    IF segs = <<>> THEN acc
    ELSE IF Head(segs) = "." THEN NormalizeSegs(Tail(segs), acc)
    ELSE IF Head(segs) = ".."
         THEN NormalizeSegs(Tail(segs),
                            IF acc = <<>> THEN acc ELSE SubSeq(acc, 1, Len(acc) - 1))
         ELSE NormalizeSegs(Tail(segs), Append(acc, Head(segs)))

\* The bug of joining where the code resolves: an absolute rel is put under base.
pathResolveAsJoin(base, rel) ==
    P(TRUE, NormalizeSegs(base.segs \o rel.segs, <<>>))

\* path.resolve(base, rel), base absolute: an absolute rel replaces base.
pathResolve(base, rel) ==
    IF rel.abs
    THEN P(TRUE, NormalizeSegs(rel.segs, <<>>))
    ELSE P(TRUE, NormalizeSegs(base.segs \o rel.segs, <<>>))

\* The files the process can see.
FsEntries == <<
    [path |-> <<>>,                  kind |-> "directory", content |-> "",   readable |-> TRUE],
    [path |-> <<"proj">>,            kind |-> "directory", content |-> "",   readable |-> TRUE],
    [path |-> <<"a.txt">>,           kind |-> "file",      content |-> "R",  readable |-> TRUE],
    [path |-> <<"proj", "a.txt">>,   kind |-> "file",      content |-> "A",  readable |-> TRUE],
    [path |-> <<"proj", "b">>,       kind |-> "directory", content |-> "",   readable |-> TRUE],
    [path |-> <<"proj", "sock">>,    kind |-> "socket",    content |-> "",   readable |-> TRUE],
    [path |-> <<"proj", "b", "a.txt">>, kind |-> "file",   content |-> "BA", readable |-> TRUE],
    [path |-> <<"proj", "b", "b">>,  kind |-> "file",      content |-> "S",  readable |-> FALSE],
    [path |-> <<"proj", "b", "proj">>, kind |-> "directory", content |-> "", readable |-> FALSE]
>>

FsHas(segs) == \E i \in 1..Len(FsEntries) : FsEntries[i].path = segs
FsAt(segs) == FsEntries[CHOOSE i \in 1..Len(FsEntries) : FsEntries[i].path = segs]

Rejected(msg) == [ok |-> FALSE, value |-> <<>>, message |-> msg]
Resolved(v) == [ok |-> TRUE, value |-> v, message |-> ""]

\* Every proper prefix of segs is a directory.
ParentsAreDirs(segs) ==
    \A n \in 0..(Len(segs) - 1) :
        FsHas(SubSeq(segs, 1, n)) => FsAt(SubSeq(segs, 1, n)).kind = "directory"

\* fs.readFile(p, "utf8"): the promise's settlement.
readFile(p) ==
    IF ~ParentsAreDirs(p.segs) THEN Rejected("ENOTDIR")
    ELSE IF ~FsHas(p.segs) THEN Rejected("ENOENT")
    ELSE IF FsAt(p.segs).kind = "directory" THEN Rejected("EISDIR")
    ELSE IF FsAt(p.segs).kind # "file" THEN Rejected("ENXIO")
    ELSE IF ~FsAt(p.segs).readable THEN Rejected("EACCES")
    ELSE Resolved(<<FsAt(p.segs).content>>)

IsChild(e, segs) ==
    /\ Len(e.path) = Len(segs) + 1
    /\ SubSeq(e.path, 1, Len(segs)) = segs

\* A Dirent of fs.readdir(p, {withFileTypes: true}).
Dirent(e) == [name |-> e.path[Len(e.path)], kind |-> e.kind]

RECURSIVE Children(_, _)
Children(entries, segs) ==
    IF entries = <<>> THEN <<>>
    ELSE (IF IsChild(Head(entries), segs) THEN <<Dirent(Head(entries))>> ELSE <<>>)
         \o Children(Tail(entries), segs)

\* fs.readdir(p, {withFileTypes: true}): the promise's settlement.
readdir(p) ==
    IF ~ParentsAreDirs(p.segs) THEN Rejected("ENOTDIR")
    ELSE IF ~FsHas(p.segs) THEN Rejected("ENOENT")
    ELSE IF FsAt(p.segs).kind # "directory" THEN Rejected("ENOTDIR")
    ELSE IF ~FsAt(p.segs).readable THEN Rejected("EACCES")
    ELSE Resolved(Children(FsEntries, p.segs))

(***************************************************************************)
(* The registered tools: schemas and handlers                              *)
(***************************************************************************)
ToolNames == {"add_numbers", "current_time_ist", "read_project_file",
              "list_project_directory"}
IoTools == {"read_project_file", "list_project_directory"}

Req(k, ty) == [key |-> k, type |-> ty, optional |-> FALSE]
Opt(k, ty) == [key |-> k, type |-> ty, optional |-> TRUE]

\* registerTool(..., {inputSchema}, ...)
inputSchema(name) ==
    CASE name = "add_numbers" -> <<Req("a", "number"), Req("b", "number")>>
      [] name = "current_time_ist" -> <<>>
      [] name = "read_project_file" -> <<Req("relativePath", "string")>>
      [] name = "list_project_directory" -> <<Opt("relativePath", "string")>>

\* registerTool(..., {outputSchema}, ...)
outputSchema(name) ==
    CASE name = "add_numbers" -> <<Req("result", "number")>>
      [] name = "current_time_ist" -> <<Req("iso", "string"), Req("human", "string")>>
      [] name = "read_project_file" ->
            <<Req("relativePath", "string"), Req("absolutePath", "string"),
              Req("content", "string")>>
      [] name = "list_project_directory" ->
            <<Req("directory", "string"), Req("entries", "entries")>>

EntryTypes == {"file", "directory", "other"}

\* z.object({name: z.string(), type: z.enum(["file", "directory", "other"])})
EntryConforms(item) ==
    /\ IsString(Field(item, "name"))
    /\ Field(item, "type")[1] = "string"
    /\ Field(item, "type")[2] \in EntryTypes

TypeOk(v, ty) ==
    CASE ty = "number" -> IsNumber(v)
      [] ty = "string" -> IsString(v)
      [] ty = "entries" -> IsArray(v) /\ \A i \in 1..Len(v[2]) : EntryConforms(v[2][i])

\* zod's parse of an object against a schema: every declared key has a value
\* of its type (an optional key may be absent); undeclared keys are ignored.
Conforms(obj, schema) ==
    \A i \in 1..Len(schema) :
        IF HasField(obj, schema[i].key) /\ Field(obj, schema[i].key) # Undefined
        THEN TypeOk(Field(obj, schema[i].key), schema[i].type)
        ELSE schema[i].optional

\* What a handler's promise settles to.
Returned(text, sc) ==
    [raised |-> FALSE,
     content |-> << [type |-> "text", text |-> text] >>,
     structuredContent |-> sc]

\* add_numbers: async ({a, b}) => ...
add_numbers(v, args) ==
    LET a == Field(args, "a")[2]
        b == Field(args, "b")[2]
    IN  IF v = "server_ts"
        THEN LET output == << <<"result", Num(a + b)>> >>
             IN  Returned(JSONstringify(output), output)
        ELSE LET result == a + b
             IN  Returned(JSONstringify(<< <<"result", Num(result)>> >>),
                          << <<"result", Num(result)>> >>)

\* Date.prototype.toISOString and toLocaleString("en-IN", {timeZone:
\* "Asia/Kolkata", dateStyle: "full", timeStyle: "long"}) of an instant
toISOString(now) == <<"isostring", now>>
toLocaleString(now) == <<"localestring", now>>

\* current_time_ist: async () => ...
current_time_ist(v, now) ==
    IF v = "server_ts"
    THEN LET iso == toISOString(now)
             human == toLocaleString(now)
             output == << <<"iso", iso>>, <<"human", human>> >>
         IN  Returned(JSONstringify(output), output)
    ELSE Returned(JSONstringify(<< <<"iso", toISOString(now)>>,
                                   <<"human", toLocaleString(now)>> >>),
                  << <<"iso", toISOString(now)>>,
                     <<"human", toLocaleString(now)>> >>)

\* read_project_file, up to its await: path.resolve(process.cwd(), relativePath)
absolutePath(relativePath) == pathResolve(Cwd, relativePath)

\* The catch branch's error text: the rejection of fs is an Error, so both
\* `error instanceof Error ? error.message : String(error)` and `err.message`
\* are its message.
errorMessage(v, settled) == Str(settled.message)

readSuccess(v, relativePath, abs, content) ==
    IF v = "server_ts"
    THEN LET output == << <<"relativePath", PathStr(relativePath)>>,
                          <<"absolutePath", PathStr(abs)>>,
                          <<"content", Str(content)>> >>
         IN  Returned(JSONstringify(output), output)
    ELSE Returned(JSONstringify(<< <<"relativePath", PathStr(relativePath)>>,
                                   <<"absolutePath", PathStr(abs)>>,
                                   <<"content", Str(content)>> >>),
                  << <<"relativePath", PathStr(relativePath)>>,
                     <<"absolutePath", PathStr(abs)>>,
                     <<"content", Str(content)>> >>)

\* The bug of a catch branch that still fills in content.
readFailureWithContent(v, relativePath, abs, settled) ==
    LET output == << <<"relativePath", PathStr(relativePath)>>,
                     <<"absolutePath", PathStr(abs)>>,
                     <<"content", Str("")>>,
                     <<"error", errorMessage(v, settled)>> >>
    IN  Returned(JSONstringify(output), output)

readFailure(v, relativePath, abs, settled) ==
    IF v = "server_ts"
    THEN LET output == << <<"relativePath", PathStr(relativePath)>>,
                          <<"absolutePath", PathStr(abs)>>,
                          <<"error", errorMessage(v, settled)>> >>
         IN  Returned(JSONstringify(output), output)
    ELSE Returned(JSONstringify(<< <<"relativePath", PathStr(relativePath)>>,
                                   <<"absolutePath", PathStr(abs)>>,
                                   <<"error", errorMessage(v, settled)>> >>),
                  << <<"relativePath", PathStr(relativePath)>>,
                     <<"absolutePath", PathStr(abs)>>,
                     <<"error", errorMessage(v, settled)>> >>)

\* read_project_file, from its await on: settled is what
\* fs.readFile(absolutePath, "utf8") settled to.
read_project_file(v, args, settled) ==
    LET relativePath == Field(args, "relativePath")[2]
        abs == absolutePath(relativePath)
    IN  IF settled.ok
        THEN readSuccess(v, relativePath, abs, settled.value[1])
        ELSE readFailure(v, relativePath, abs, settled)

\* list_project_directory, up to its await:
\* path.resolve(process.cwd(), relativePath || ".")
dirPath(args) ==
    LET relativePath == Field(args, "relativePath")
    IN  IF relativePath = Undefined \/ relativePath[2] = P(FALSE, <<>>)
        THEN pathResolve(Cwd, P(FALSE, <<".">>))
        ELSE pathResolve(Cwd, relativePath[2])

\* The bug of a classification with no third case.
entryTypeNoOther(entry) ==
    IF entry.kind = "directory" THEN "directory" ELSE "file"

\* entry.isDirectory() ? "directory" : entry.isFile() ? "file" : "other"
entryType(entry) ==
    IF entry.kind = "directory" THEN "directory"
    ELSE IF entry.kind = "file" THEN "file"
    ELSE "other"

\* dirEntries.map((entry) => ({name: entry.name, type: ...}))
RECURSIVE mapEntries(_)
mapEntries(dirEntries) ==
    IF dirEntries = <<>> THEN <<>>
    ELSE << << <<"name", Str(Head(dirEntries).name)>>,
               <<"type", Str(entryType(Head(dirEntries)))>> >> >>
         \o mapEntries(Tail(dirEntries))

listSuccess(v, dir, dirEntries) ==
    LET entries == Arr(mapEntries(dirEntries))
    IN  IF v = "server_ts"
        THEN LET output == << <<"directory", PathStr(dir)>>, <<"entries", entries>> >>
             IN  Returned(JSONstringify(output), output)
        ELSE Returned(JSONstringify(<< <<"directory", PathStr(dir)>>,
                                       <<"entries", entries>> >>),
                      << <<"directory", PathStr(dir)>>, <<"entries", entries>> >>)

\* The bug of two object literals that drifted apart: the text keeps a
\* field the structured payload lost.
listFailureStaleText(v, dir, settled) ==
    Returned(JSONstringify(<< <<"directory", PathStr(dir)>>,
                              <<"entries", Arr(<<>>)>>,
                              <<"error", errorMessage(v, settled)>> >>),
             << <<"directory", PathStr(dir)>>,
                <<"error", errorMessage(v, settled)>> >>)

listFailure(v, dir, settled) ==
    IF v = "server_ts"
    THEN LET output == << <<"directory", PathStr(dir)>>,
                          <<"entries", Arr(<<>>)>>,
                          <<"error", errorMessage(v, settled)>> >>
         IN  Returned(JSONstringify(output), output)
    ELSE Returned(JSONstringify(<< <<"directory", PathStr(dir)>>,
                                   <<"error", errorMessage(v, settled)>> >>),
                  << <<"directory", PathStr(dir)>>,
                     <<"error", errorMessage(v, settled)>> >>)

\* list_project_directory, from its await on: settled is what
\* fs.readdir(dirPath, {withFileTypes: true}) settled to.
list_project_directory(v, args, settled) ==
    IF settled.ok
    THEN listSuccess(v, dirPath(args), settled.value)
    ELSE listFailure(v, dirPath(args), settled)

(***************************************************************************)
(* Dispatch of one tools/call by the server the tools are registered on    *)
(***************************************************************************)
Call(name, args) == [name |-> name, args |-> args]

DispatchFailure(code) == [kind |-> "dispatchFailure", code |-> code, result |-> <<>>]
Reply(h) == [kind |-> "result", code |-> "", result |-> <<h>>]

\* Before the handler runs: the name must be registered and the arguments
\* must parse against the tool's inputSchema.  "" when the call goes through.
rejectCall(call) ==
    IF call.name \notin ToolNames THEN "unknownTool"
    ELSE IF ~Conforms(call.args, inputSchema(call.name)) THEN "invalidParams"
    ELSE ""

\* After the handler settled: a tool registered with an outputSchema must
\* return structuredContent that parses against it.
callToolEnd(name, h) ==
    IF h.raised THEN DispatchFailure("handlerThrew")
    ELSE IF ~Conforms(h.structuredContent, outputSchema(name))
         THEN DispatchFailure("invalidStructuredContent")
         ELSE Reply(h)

\* The path an I/O tool's handler awaits fs on.
awaitedPath(call) ==
    IF call.name = "read_project_file"
    THEN absolutePath(Field(call.args, "relativePath")[2])
    ELSE dirPath(call.args)

\* What the handler returns once fs has settled.
ioHandler(v, call, path) ==
    IF call.name = "read_project_file"
    THEN read_project_file(v, call.args, readFile(path))
    ELSE list_project_directory(v, call.args, readdir(path))

syncHandler(v, call, now) ==
    IF call.name = "add_numbers"
    THEN add_numbers(v, call.args)
    ELSE current_time_ist(v, now)

\* The whole of one tools/call.
callTool(v, call, now) ==
    IF rejectCall(call) # "" THEN DispatchFailure(rejectCall(call))
    ELSE IF call.name \in IoTools
         THEN callToolEnd(call.name, ioHandler(v, call, awaitedPath(call)))
         ELSE callToolEnd(call.name, syncHandler(v, call, now))

(***************************************************************************)
(* The calls a client can send                                             *)
(***************************************************************************)
Names == {"a.txt", "b", "proj", "sock", ".", ".."}
SeqsUpTo(S, n) == UNION {[1..k -> S] : k \in 0..n}
RelPaths == {P(a, s) : a \in BOOLEAN, s \in SeqsUpTo(Names, MaxSegs)}
Nums == (0 - MaxNum)..MaxNum

ValidCalls ==
    {Call("add_numbers", << <<"a", Num(a)>>, <<"b", Num(b)>> >>) : a, b \in Nums}
    \cup {Call("current_time_ist", <<>>)}
    \cup {Call("read_project_file", << <<"relativePath", PathStr(p)>> >>) : p \in RelPaths}
    \cup {Call("list_project_directory", << <<"relativePath", PathStr(p)>> >>) : p \in RelPaths}
    \cup {Call("list_project_directory", <<>>)}

InvalidCalls ==
    {Call("no_such_tool", <<>>),
     Call("add_numbers", << <<"a", Str("1")>>, <<"b", Num(0)>> >>),
     Call("add_numbers", << <<"a", Num(0)>> >>),
     Call("read_project_file", <<>>),
     Call("list_project_directory", << <<"relativePath", Num(0)>> >>)}

ToolCalls == ValidCalls \cup InvalidCalls

(***************************************************************************)
(* One tools/call, step by step                                            *)
(***************************************************************************)
ToolInit ==
    /\ tphase = "idle"
    /\ tcall = <<>>
    /\ tpath = <<>>
    /\ thandler = <<>>
    /\ toutcome = <<>>

\* The call is refused before any handler runs.
ToolReject(call) ==
    /\ tphase = "idle"
    /\ rejectCall(call) # ""
    /\ tcall' = <<call>>
    /\ toutcome' = <<DispatchFailure(rejectCall(call))>>
    /\ tphase' = "replied"
    /\ UNCHANGED <<tpath, thandler>>
    /\ UNCHANGED <<variant, httpVars>>

\* add_numbers, current_time_ist: the handler runs to its return.
ToolInvokeSync(call, now) ==
    /\ tphase = "idle"
    /\ rejectCall(call) = ""
    /\ call.name \notin IoTools
    /\ tcall' = <<call>>
    /\ thandler' = <<syncHandler(variant, call, now)>>
    /\ tphase' = "returned"
    /\ UNCHANGED <<tpath, toutcome>>
    /\ UNCHANGED <<variant, httpVars>>

\* read_project_file, list_project_directory: the handler runs to its await.
ToolInvokeIo(call) ==
    /\ tphase = "idle"
    /\ rejectCall(call) = ""
    /\ call.name \in IoTools
    /\ tcall' = <<call>>
    /\ tpath' = <<awaitedPath(call)>>
    /\ tphase' = "io"
    /\ UNCHANGED <<thandler, toutcome>>
    /\ UNCHANGED <<variant, httpVars>>

\* fs settles; the handler resumes in its try or its catch and returns.
ToolIoSettle ==
    /\ tphase = "io"
    /\ thandler' = <<ioHandler(variant, tcall[1], tpath[1])>>
    /\ tphase' = "returned"
    /\ UNCHANGED <<tcall, tpath, toutcome>>
    /\ UNCHANGED <<variant, httpVars>>

\* The dispatcher checks what the handler returned and answers.
ToolReply ==
    /\ tphase = "returned"
    /\ toutcome' = <<callToolEnd(tcall[1].name, thandler[1])>>
    /\ tphase' = "replied"
    /\ UNCHANGED <<tcall, tpath, thandler>>
    /\ UNCHANGED <<variant, httpVars>>

ToolNext ==
    \/ \E call \in ToolCalls : ToolReject(call)
    \/ \E call \in ToolCalls, now \in 0..MaxNow : ToolInvokeSync(call, now)
    \/ \E call \in ToolCalls : ToolInvokeIo(call)
    \/ ToolIoSettle
    \/ ToolReply

(***************************************************************************)
(* POST /mcp                                                               *)
(***************************************************************************)
Reqs == 1..MaxReq
Transports == 1..MaxReq
RpcIds == {1}          \* every client numbers its one request 1

HttpCalls ==
    {Call("add_numbers", << <<"a", Num(1)>>, <<"b", Num(1)>> >>),
     Call("read_project_file", << <<"relativePath", PathStr(P(FALSE, <<"a.txt">>))>> >>)}

Bodies == {[id |-> i, call |-> c] : i \in RpcIds, c \in HttpCalls}

NoStreams == [i \in RpcIds |-> 0]
FreshRes == [headersSent |-> FALSE, statusCode |-> 0, body |-> <<>>,
             ended |-> FALSE, closed |-> FALSE, sent |-> 0]

\* {error: "Internal MCP server error"}
ErrBody == [error |-> "Internal MCP server error"]
\* The page of the web framework's own error handler.
DefaultErrorPage == [error |-> "Internal Server Error"]
\* A JSON-RPC response.
RpcResponse(id, outcome) == [id |-> id, outcome |-> outcome]

\* What the runtime does with the handler's rejected promise when nothing
\* catches it: end the process, warn and go on, or hand it to the web
\* framework's own error handler.
UnhandledOutcomes == {"crash", "warn", "defaultHandler"}

HttpInit ==
    /\ alive = TRUE
    /\ nextTransport = 1
    /\ serverTransport = 0
    /\ pc = [r \in Reqs |-> "idle"]
    /\ body = [r \in Reqs |-> <<>>]
    /\ transportOf = [r \in Reqs |-> 0]
    /\ streams = [t \in Transports |-> NoStreams]
    /\ closeCalls = [t \in Transports |-> 0]
    /\ inflight = [r \in Reqs |-> <<>>]
    /\ res = [r \in Reqs |-> FreshRes]
    /\ socket = [r \in Reqs |-> "none"]

Init ==
    /\ variant \in Variants
    /\ ToolInit
    /\ HttpInit

\* The bug of one transport made at module level and used by every request.
sharedTransport(n) == 1

\* new StreamableHTTPServerTransport({...}) inside the handler: the n-th
\* construction yields the n-th transport.
newTransport(n) == n

\* The bug of a callback that never closes the transport.
resOnCloseForgets(t, calls) == calls

\* res.on("close", () => transport.close()): what the callback does to the
\* count of close() calls of the handler's transport.
resOnClose(t, calls) == [calls EXCEPT ![t] = @ + 1]

\* transport.close() drops the responses the transport was holding.
closeStreams(t, st) == [st EXCEPT ![t] = NoStreams]

\* res.status(500).json({error: "Internal MCP server error"})
send500(resr, page) ==
    [resr EXCEPT !.headersSent = TRUE, !.statusCode = 500, !.body = <<page>>,
                 !.ended = TRUE, !.sent = @ + 1]

\* The catch block of server.ts.
catchBlock(resr) ==
    IF ~resr.headersSent THEN send500(resr, ErrBody) ELSE resr

\* The response emits "close": its listeners run, once.
EmitClose(r, resr) ==
    /\ res' = [res EXCEPT ![r] = [resr EXCEPT !.closed = TRUE]]
    /\ IF transportOf[r] # 0
       THEN /\ closeCalls' = resOnClose(transportOf[r], closeCalls)
            /\ streams' = closeStreams(transportOf[r], streams)
       ELSE UNCHANGED <<closeCalls, streams>>

\* An exception leaves the body of the handler of request r, whose transport
\* (if any) is t.  server.ts catches it; part_000 has no try, so the
\* handler's promise rejects with nothing to catch it.
Throw(r, outcome) ==
    IF variant = "server_ts"
    THEN /\ pc' = [pc EXCEPT ![r] = "caught"]
         /\ res' = [res EXCEPT ![r] = catchBlock(res[r])]
         /\ UNCHANGED <<alive, socket, closeCalls, streams>>
    ELSE /\ pc' = [pc EXCEPT ![r] = "rejected"]
         /\ CASE outcome = "crash" ->
                    /\ alive' = FALSE
                    /\ UNCHANGED <<res, socket, closeCalls, streams>>
              [] outcome = "warn" ->
                    UNCHANGED <<alive, res, socket, closeCalls, streams>>
              [] outcome = "defaultHandler" ->
                    /\ alive' = alive
                    /\ IF ~res[r].headersSent
                       THEN /\ res' = [res EXCEPT ![r] = send500(res[r], DefaultErrorPage)]
                            /\ UNCHANGED <<socket, closeCalls, streams>>
                       ELSE /\ socket' = [socket EXCEPT ![r] =
                                       IF res[r].closed THEN "closed" ELSE "aborted"]
                            /\ IF ~res[r].closed
                               THEN EmitClose(r, res[r])
                               ELSE UNCHANGED <<res, closeCalls, streams>>

Arrives(r) ==
    /\ alive
    /\ pc[r] = "idle"
    /\ \A q \in Reqs : q < r => pc[q] # "idle"

\* The handler runs from its start to `await server.connect(transport)`.
Receive(r, b) ==
    /\ Arrives(r)
    /\ LET t == newTransport(nextTransport)
       IN  /\ transportOf' = [transportOf EXCEPT ![r] = t]
           /\ serverTransport' = t
    /\ nextTransport' = nextTransport + 1
    /\ body' = [body EXCEPT ![r] = <<b>>]
    /\ socket' = [socket EXCEPT ![r] = "open"]
    /\ pc' = [pc EXCEPT ![r] = "awaitConnect"]
    /\ UNCHANGED <<alive, streams, closeCalls, inflight, res>>
    /\ UNCHANGED <<variant, toolVars>>

\* The constructor of the transport throws: no transport, no listener.
NewTransportThrows(r, b, outcome) ==
    /\ Arrives(r)
    /\ body' = [body EXCEPT ![r] = <<b>>]
    /\ IF variant = "server_ts"
       THEN /\ pc' = [pc EXCEPT ![r] = "caught"]
            /\ res' = [res EXCEPT ![r] = catchBlock(res[r])]
            /\ alive' = alive
       ELSE /\ pc' = [pc EXCEPT ![r] = "rejected"]
            /\ alive' = (outcome # "crash")
            /\ res' = IF outcome = "defaultHandler"
                      THEN [res EXCEPT ![r] = send500(res[r], DefaultErrorPage)]
                      ELSE res
    /\ socket' = [socket EXCEPT ![r] = "open"]
    /\ UNCHANGED <<nextTransport, serverTransport, transportOf, streams,
                   closeCalls, inflight>>
    /\ UNCHANGED <<variant, toolVars>>

\* `await server.connect(transport)` returns; the handler calls
\* transport.handleRequest(req, res, req.body): the transport keeps res under
\* the request's JSON-RPC id and hands the message to the server.
ConnectResolve(r) ==
    /\ alive
    /\ pc[r] = "awaitConnect"
    /\ LET t == transportOf[r]
           b == body[r][1]
       IN  /\ streams' = [streams EXCEPT ![t][b.id] = r]
           /\ inflight' = [inflight EXCEPT
                  ![r] = <<[transport |-> t, id |-> b.id, call |-> b.call]>>]
    /\ pc' = [pc EXCEPT ![r] = "awaitHandle"]
    /\ UNCHANGED <<alive, nextTransport, serverTransport, body, transportOf,
                   closeCalls, res, socket>>
    /\ UNCHANGED <<variant, toolVars>>

\* `await server.connect(transport)` throws.
ConnectThrows(r, outcome) ==
    /\ alive
    /\ pc[r] = "awaitConnect"
    /\ Throw(r, outcome)
    /\ UNCHANGED <<nextTransport, serverTransport, body, transportOf, inflight>>
    /\ UNCHANGED <<variant, toolVars>>

\* The tool's handler has settled (its file I/O included); the server sends
\* the JSON-RPC response to the transport the message came from, which
\* writes it to the res it keeps under the response's id.
ServerReply(r) ==
    /\ alive
    /\ pc[r] = "awaitHandle"
    /\ inflight[r] # <<>>
    /\ LET m == inflight[r][1]
           target == streams[m.transport][m.id]
       IN  IF target # 0 /\ ~res[target].headersSent
           THEN /\ res' = [res EXCEPT ![target] =
                      [@ EXCEPT !.headersSent = TRUE, !.statusCode = 200,
                                !.body = <<RpcResponse(m.id, callTool(variant, m.call, 0))>>,
                                !.ended = TRUE, !.sent = @ + 1]]
                /\ streams' = [streams EXCEPT ![m.transport][m.id] = 0]
           ELSE UNCHANGED <<res, streams>>
    /\ inflight' = [inflight EXCEPT ![r] = <<>>]
    /\ UNCHANGED <<alive, nextTransport, serverTransport, pc, body, transportOf,
                   closeCalls, socket>>
    /\ UNCHANGED <<variant, toolVars>>

\* `await transport.handleRequest(...)` returns; the handler is over.
HandleResolve(r) ==
    /\ alive
    /\ pc[r] = "awaitHandle"
    /\ inflight[r] = <<>>
    /\ pc' = [pc EXCEPT ![r] = "done"]
    /\ UNCHANGED <<alive, nextTransport, serverTransport, body, transportOf,
                   streams, closeCalls, inflight, res, socket>>
    /\ UNCHANGED <<variant, toolVars>>

\* `await transport.handleRequest(...)` throws, before the response was
\* written (the message is dropped) or after.
HandleThrows(r, outcome) ==
    /\ alive
    /\ pc[r] = "awaitHandle"
    /\ inflight' = [inflight EXCEPT ![r] = <<>>]
    /\ Throw(r, outcome)
    /\ UNCHANGED <<nextTransport, serverTransport, body, transportOf>>
    /\ UNCHANGED <<variant, toolVars>>

\* The response is complete and emits "close".
ResClose(r) ==
    /\ alive
    /\ res[r].ended
    /\ ~res[r].closed
    /\ EmitClose(r, res[r])
    /\ UNCHANGED <<alive, nextTransport, serverTransport, pc, body, transportOf,
                   inflight, socket>>
    /\ UNCHANGED <<variant, toolVars>>

\* The peer's connection goes away: the response emits "close" unless it
\* already has.
PeerDisconnect(r) ==
    /\ alive
    /\ socket[r] = "open"
    /\ socket' = [socket EXCEPT ![r] = IF res[r].closed THEN "closed" ELSE "aborted"]
    /\ IF ~res[r].closed
       THEN EmitClose(r, res[r])
       ELSE UNCHANGED <<res, closeCalls, streams>>
    /\ UNCHANGED <<alive, nextTransport, serverTransport, pc, body, transportOf,
                   inflight>>
    /\ UNCHANGED <<variant, toolVars>>

Next ==
    \/ \E r \in Reqs, b \in Bodies : Receive(r, b)
    \/ \E r \in Reqs, b \in Bodies, o \in UnhandledOutcomes : NewTransportThrows(r, b, o)
    \/ \E r \in Reqs : ConnectResolve(r)
    \/ \E r \in Reqs, o \in UnhandledOutcomes : ConnectThrows(r, o)
    \/ \E r \in Reqs : ServerReply(r)
    \/ \E r \in Reqs : HandleResolve(r)
    \/ \E r \in Reqs, o \in UnhandledOutcomes : HandleThrows(r, o)
    \/ \E r \in Reqs : ResClose(r)
    \/ \E r \in Reqs : PeerDisconnect(r)

Spec == Init /\ [][Next]_vars

\* What Node's event loop guarantees: a resumable await resumes, a settled
\* tool is answered, and an ended response emits "close".
Fairness ==
    \A r \in Reqs :
        /\ WF_vars(ConnectResolve(r))
        /\ WF_vars(ServerReply(r))
        /\ WF_vars(HandleResolve(r))
        /\ WF_vars(ResClose(r))

LiveSpec == Init /\ [][Next]_vars /\ Fairness

ToolSpec == Init /\ [][ToolNext]_vars

(***************************************************************************)
(* Properties                                                              *)
(***************************************************************************)
Present(obj, k) == HasField(obj, k) /\ Field(obj, k) # Undefined

\* The tool call in progress, once its handler has returned.
HandlerReturned == thandler # <<>>
CallName == tcall[1].name
Payload == thandler[1].structuredContent

IoFailed ==
    /\ tpath # <<>>
    /\ IF CallName = "read_project_file"
       THEN ~readFile(tpath[1]).ok
       ELSE ~readdir(tpath[1]).ok

\* path.join(base, rel): the two put together, then normalised.
pathJoin(base, rel) == P(base.abs, NormalizeSegs(base.segs \o rel.segs, <<>>))

\* The names of the immediate children of a directory.
ChildNames(segs) ==
    {FsEntries[i].path[Len(FsEntries[i].path)] :
        i \in {j \in 1..Len(FsEntries) :
                  /\ Len(FsEntries[j].path) = Len(segs) + 1
                  /\ SubSeq(FsEntries[j].path, 1, Len(segs)) = segs}}

KindType(kind) ==
    CASE kind = "directory" -> "directory"
      [] kind = "file" -> "file"
      [] OTHER -> "other"

C2_Claim ==
    \A r \in Reqs :
        pc[r] \in {"caught", "rejected"}
            => /\ alive
               /\ res[r].sent <= 1
               /\ \/ res[r].statusCode = 200
                  \/ res[r].statusCode = 500 /\ res[r].body = <<ErrBody>>

\* C3: a request's transport is closed at most once; it has been closed once
\* exactly when its response has emitted "close", whether the response was
\* complete or the peer went away; a connection that goes away after that
\* closes nothing again.
C3_ReleasedOnce ==
    \A r \in Reqs :
        transportOf[r] # 0
            => /\ closeCalls[transportOf[r]] <= 1
               /\ res[r].closed <=> closeCalls[transportOf[r]] = 1
               /\ socket[r] \in {"aborted", "closed"} => closeCalls[transportOf[r]] = 1

\* The response was complete and emitted "close"; then the connection went
\* away: the second signal released nothing.
C3_Witness ==
    \E r \in Reqs :
        /\ transportOf[r] # 0
        /\ socket[r] = "closed"
        /\ res[r].ended
        /\ closeCalls[transportOf[r]] = 1

\* C4: when the read of read_project_file or list_project_directory fails,
\* the call is answered with a result whose structured payload has an error
\* field, never with a failure of the dispatch.
C4_Claim ==
    (tphase = "replied" /\ HandlerReturned /\ CallName \in IoTools /\ IoFailed)
        => /\ toutcome[1].kind = "result"
           /\ Present(toutcome[1].result[1].structuredContent, "error")

\* C5: read_project_file returns without raising, with exactly one of
\* content and error: content when the read succeeded, error when it failed;
\* relativePath is the argument and absolutePath is there.
C5_ReadEnvelope ==
    (HandlerReturned /\ CallName = "read_project_file")
        => /\ ~thandler[1].raised
           /\ Present(Payload, "content") # Present(Payload, "error")
           /\ Present(Payload, "content") <=> readFile(tpath[1]).ok
           /\ Field(Payload, "relativePath") = Field(tcall[1].args, "relativePath")
           /\ Present(Payload, "absolutePath")
           /\ IsString(Field(Payload, "absolutePath"))

\* A read that failed and was reported.
C5_Witness ==
    /\ HandlerReturned
    /\ CallName = "read_project_file"
    /\ ~readFile(tpath[1]).ok
    /\ Present(Payload, "error")

C7_Listing ==
    (HandlerReturned /\ CallName = "list_project_directory")
        => LET rel == Field(tcall[1].args, "relativePath")
               entries == Field(Payload, "entries")
           IN  /\ ~thandler[1].raised
               /\ Field(Payload, "directory") = PathStr(tpath[1])
               /\ (rel = Undefined \/ rel = PathStr(P(FALSE, <<>>)))
                    => tpath[1] = Cwd
               /\ readdir(tpath[1]).ok
                    => /\ ~HasField(Payload, "error")
                       /\ IsArray(entries)
                       /\ Len(entries[2]) = Cardinality(ChildNames(tpath[1].segs))
                       /\ {Field(entries[2][i], "name")[2] : i \in 1..Len(entries[2])}
                            = ChildNames(tpath[1].segs)
                       /\ \A i \in 1..Len(entries[2]) :
                            Field(entries[2][i], "type") =
                                Str(KindType(FsAt(tpath[1].segs
                                    \o <<Field(entries[2][i], "name")[2]>>).kind))
               /\ ~readdir(tpath[1]).ok
                    => /\ Present(Payload, "error")
                       /\ ~HasField(Payload, "entries") \/ entries = Arr(<<>>)

\* The working directory was listed by default, with a child of each type.
C7_Witness ==
    /\ HandlerReturned
    /\ CallName = "list_project_directory"
    /\ tcall[1].args = <<>>
    /\ tpath[1] = Cwd
    /\ {Field(Field(Payload, "entries")[2][i], "type")[2] :
           i \in 1..Len(Field(Payload, "entries")[2])} = EntryTypes

\* C8: whatever a handler returns, by its try or by its catch, has one text
\* item and a structuredContent, and the text is JSON.stringify of that
\* structuredContent.
C8_TextIsSerialization ==
    HandlerReturned
        => /\ ~thandler[1].raised
           /\ Len(thandler[1].content) = 1
           /\ thandler[1].content[1].type = "text"
           /\ thandler[1].content[1].text = JSONstringify(Payload)

\* The catch branch of list_project_directory in the copy that writes the
\* object twice.
C8_Witness ==
    /\ HandlerReturned
    /\ variant = "part_000"
    /\ CallName = "list_project_directory"
    /\ Present(Payload, "error")

\* C9: a request that made a transport sees it closed in the end.
C9_Claim ==
    \A r \in Reqs :
        (transportOf[r] # 0)
            ~> (transportOf[r] # 0 /\ closeCalls[transportOf[r]] >= 1)

\* C10: whatever a handler returns parses against the outputSchema its tool
\* was registered with.
C10_Claim ==
    HandlerReturned => Conforms(Payload, outputSchema(CallName))

\* C11: server.connect(transport) and transport.handleRequest(req, res, body)
\* are never started on a transport that the "close" callback has closed:
\* no step takes a handler into its connect, or from its connect into its
\* handleRequest, with close() already called on its transport.
C11_Claim ==
    [][\A r \in Reqs :
          /\ (pc[r] = "idle" /\ pc'[r] = "awaitConnect")
                => closeCalls[transportOf'[r]] = 0
          /\ (pc[r] = "awaitConnect" /\ pc'[r] = "awaitHandle")
                => closeCalls[transportOf[r]] = 0]_vars

====
